---- MODULE Spec2Model ----
(***************************************************************************)
(* CompetitorBoilerplate (src/competitor_template.py): a market-making     *)
(* strategy over five symbols.  The strategy object owns two maps,         *)
(* volatility_memory and mid_price_memory; everything else it reads comes  *)
(* from the exchange through get_order_book_snapshot and everything it     *)
(* does goes to the exchange through create_limit_order.                   *)
(*                                                                         *)
(* Prices are fixed-point integers: Cent units make 0.01, so that every    *)
(* quantity the code computes from prices on the cent grid (the mid-price, *)
(* its absolute change, the level distance 0.05 * (1 + 0.1 * v)) is an     *)
(* integer and the arithmetic below is exact.                              *)
(*                                                                         *)
(* Each get_order_book_snapshot call is an input of its own: the exchange  *)
(* may answer two calls of one method differently.  An optional value is a *)
(* sequence of length at most one: None is <<>>, a value x is <<x>>.       *)
(***************************************************************************)
EXTENDS Integers, Sequences, FiniteSets, TLC

VARIABLES
    volatility_memory,  \* self.volatility_memory: symbol -> last |mid change|
    mid_price_memory,   \* self.mid_price_memory: symbol -> optional last mid
    pc,                 \* strategy(): the next call of Schedule, 0 outside it
    last,               \* the most recent method call: what it read and returned
    submitted,          \* create_limit_order calls of that method call, in order
    refused,            \* how many of them create_limit_order answered with None
    trace,              \* create_limit_order calls of the current tick, in order
    invoked,            \* sub-strategy invocations of the current tick, in order
    tickStart,          \* the two maps as they were when the tick began
    pennySaw,           \* the bests the pennying call's volatility read, until
                        \* the symbol's deep-levels call has run
    tickObs             \* per symbol, what the current tick has seen of it so far

vars == <<volatility_memory, mid_price_memory, pc, last, submitted, refused,
          trace, invoked, tickStart, pennySaw, tickObs>>

-----------------------------------------------------------------------------
(* Bounds of the environment *)

MaxChanges == 1   \* changes of a symbol's book while one method call runs
MaxDepth == 6     \* levels on the bid side of the deepest book
MaxRejects == 1   \* create_limit_order calls refused within one method call

-----------------------------------------------------------------------------
(* Literals of the source *)

Cent == 400                        \* 0.01
Dollar == 100 * Cent               \* 1.0
TopLevels == 5                     \* bids[:5], asks[:5]
PennySize == 5                     \* size=5 of the pennying orders
DeepSize == 10                     \* size=10 of the deep orders
ReactSize == 5                     \* size=5 of the large-order reaction
large_order_threshold == 50
base_order_size == 10
base_level_distance == 5 * Cent    \* 0.05

Symbols == <<"NVR", "CPMD", "MFH", "ANG", "TVW">>
SymbolSet == {Symbols[i] : i \in 1..Len(Symbols)}

None == <<>>
Some(x) == <<x>>

Abs(x) == IF x < 0 THEN -x ELSE x
Max(a, b) == IF a >= b THEN a ELSE b
Min(a, b) == IF a <= b THEN a ELSE b

RECURSIVE SumSizes(_)
SumSizes(levels) ==
    IF levels = <<>> THEN 0 ELSE Head(levels)[2] + SumSizes(Tail(levels))

-----------------------------------------------------------------------------
(* The exchange's answers.  A snapshot is falsy (None or an empty dict:    *)
(* some = FALSE) or a dict whose "bids" and "asks" default to [].  A level *)
(* is <<price, size>>.                                                     *)

NoSnapshot == [some |-> FALSE, bids |-> <<>>, asks |-> <<>>]
Book(b, a) == [some |-> TRUE, bids |-> b, asks |-> a]

Px(d, c) == d * Dollar + c * Cent

Ladder(p0, step, size, n) == [i \in 1..n |-> <<p0 + (i - 1) * step, size>>]

TwoSided ==
    { Book(<<<<Px(10, 0), 20>>>>, <<<<Px(10, 10), 5>>>>),
      Book(<<<<Px(10, 0), 60>>>>, <<<<Px(10, 10), 60>>>>),
      Book(<<<<Px(9, 0), 50>>>>, <<<<Px(9, 10), 60>>>>),
      Book(<<<<Px(10, 0), 0>>>>, <<<<Px(10, 10), 0>>>>),
      Book(Ladder(Px(10, 0), -Cent, 10, MaxDepth - 1)
               \o <<<<Px(9, 0), 100>>>>,
           Ladder(Px(10, 10), Cent, 12, TopLevels)) }

OneSided ==
    { Book(<<<<Px(10, 0), 60>>>>, <<>>),
      Book(<<>>, <<<<Px(10, 10), 60>>>>) }

Snapshots == {NoSnapshot} \cup OneSided \cup TwoSided

\* The exchange has a book for two of the five symbols, with symbols it has
\* none for before, between and after them in self.symbols.  One trades
\* actively (any of Snapshots); the book of the other, when there is one, is
\* Quiet.
Active == Symbols[2]
Listed == {Active, Symbols[4]}
Quiet == Book(<<<<Px(20, 0), 60>>>>, <<<<Px(20, 10), 60>>>>)

\* get_order_book_snapshot(symbol): what one call may return
get_order_book_snapshot(s) ==
    IF s \notin Listed THEN {NoSnapshot}
    ELSE IF s = Active THEN Snapshots
    ELSE {NoSnapshot, Quiet}

\* The successive answers to the n reads of one method run, the first of
\* which was `first`: the book changes at most c times between them.
RECURSIVE Runs(_, _, _, _)
Runs(S, first, n, c) ==
    IF n = 1 THEN {<<first>>}
    ELSE {<<first>> \o r : r \in Runs(S, first, n - 1, c)}
         \cup (IF c = 0 THEN {}
               ELSE UNION {{<<first>> \o r : r \in Runs(S, b, n - 1, c - 1)} :
                              b \in S \ {first}})

Reads(s, first, n) == Runs(get_order_book_snapshot(s), first, n, MaxChanges)

-----------------------------------------------------------------------------
(* SignalEngine *)

get_mid_price(snapshot) ==
    IF ~snapshot.some THEN None
    ELSE IF snapshot.bids = <<>> \/ snapshot.asks = <<>> THEN None
    ELSE Some((snapshot.bids[1][1] + snapshot.asks[1][1]) \div 2)

\* Variants of calculate_volatility with one slip each: no cold start (a missing
\* baseline counts as 0), the stored volatility cleared on a miss, the baseline
\* left where it was.
calculate_volatility_no_cold_start(vm, mm, symbol, snapshot) ==
    LET mid_price == get_mid_price(snapshot) IN
    IF mid_price = None
    THEN [ret |-> vm[symbol], vol |-> vm, mid |-> mm]
    ELSE LET prior == IF mm[symbol] = None THEN 0 ELSE mm[symbol][1]
             price_change == Abs(mid_price[1] - prior)
         IN [ret |-> price_change,
             vol |-> [vm EXCEPT ![symbol] = price_change],
             mid |-> [mm EXCEPT ![symbol] = mid_price]]

calculate_volatility_reset_on_miss(vm, mm, symbol, snapshot) ==
    LET mid_price == get_mid_price(snapshot) IN
    IF mid_price = None
    THEN [ret |-> 0, vol |-> [vm EXCEPT ![symbol] = 0], mid |-> mm]
    ELSE IF mm[symbol] = None
    THEN [ret |-> 0, vol |-> vm,
          mid |-> [mm EXCEPT ![symbol] = mid_price]]
    ELSE LET price_change == Abs(mid_price[1] - mm[symbol][1]) IN
         [ret |-> price_change,
          vol |-> [vm EXCEPT ![symbol] = price_change],
          mid |-> [mm EXCEPT ![symbol] = mid_price]]

calculate_volatility_stale_baseline(vm, mm, symbol, snapshot) ==
    LET mid_price == get_mid_price(snapshot) IN
    IF mid_price = None
    THEN [ret |-> vm[symbol], vol |-> vm, mid |-> mm]
    ELSE IF mm[symbol] = None
    THEN [ret |-> 0, vol |-> vm,
          mid |-> [mm EXCEPT ![symbol] = mid_price]]
    ELSE LET price_change == Abs(mid_price[1] - mm[symbol][1]) IN
         [ret |-> price_change,
          vol |-> [vm EXCEPT ![symbol] = price_change],
          mid |-> mm]

\* The result of calculate_volatility(symbol) when its get_mid_price call
\* reads `snapshot`: the return value and the two maps after the call.
calculate_volatility(vm, mm, symbol, snapshot) ==
    LET mid_price == get_mid_price(snapshot) IN
    IF mid_price = None
    THEN [ret |-> vm[symbol], vol |-> vm, mid |-> mm]
    ELSE IF mm[symbol] = None
    THEN [ret |-> 0, vol |-> vm,
          mid |-> [mm EXCEPT ![symbol] = mid_price]]
    ELSE LET price_change == Abs(mid_price[1] - mm[symbol][1]) IN
         [ret |-> price_change,
          vol |-> [vm EXCEPT ![symbol] = price_change],
          mid |-> [mm EXCEPT ![symbol] = mid_price]]

\* Variant: the sums run over every level, not the best five.
calculate_order_book_imbalance_all_levels(snapshot) ==
    IF ~snapshot.some THEN [num |-> 0, den |-> 1]
    ELSE LET total_bid_size == SumSizes(snapshot.bids)
             total_ask_size == SumSizes(snapshot.asks)
         IN IF total_bid_size + total_ask_size = 0
            THEN [num |-> 0, den |-> 1]
            ELSE [num |-> total_bid_size - total_ask_size,
                  den |-> total_bid_size + total_ask_size]

\* The imbalance as the fraction num/den the code divides out.
calculate_order_book_imbalance(snapshot) ==
    IF ~snapshot.some THEN [num |-> 0, den |-> 1]
    ELSE LET total_bid_size ==
                 SumSizes(SubSeq(snapshot.bids, 1,
                                 Min(TopLevels, Len(snapshot.bids))))
             total_ask_size ==
                 SumSizes(SubSeq(snapshot.asks, 1,
                                 Min(TopLevels, Len(snapshot.asks))))
         IN IF total_bid_size + total_ask_size = 0
            THEN [num |-> 0, den |-> 1]
            ELSE [num |-> total_bid_size - total_ask_size,
                  den |-> total_bid_size + total_ask_size]

Positive(r) == r.num * r.den > 0
Negative(r) == r.num * r.den < 0

-----------------------------------------------------------------------------
(* QuoteGenerator: the levels each sub-strategy quotes *)

Order(price, size, side, symbol) ==
    [price |-> price, size |-> size, side |-> side, symbol |-> symbol]

Orders(levels, size, side, symbol) ==
    [i \in 1..Len(levels) |-> Order(levels[i], size, side, symbol)]

penny_bid_levels(best_bid, imbalance) ==
    IF Positive(imbalance) THEN <<best_bid + 2 * Cent, best_bid + 3 * Cent>>
    ELSE IF Negative(imbalance) THEN <<best_bid + Cent>>
    ELSE <<best_bid + Cent, best_bid + 2 * Cent>>

penny_ask_levels(best_ask, imbalance) ==
    IF Positive(imbalance) THEN <<best_ask - Cent>>
    ELSE IF Negative(imbalance) THEN <<best_ask - 2 * Cent, best_ask - 3 * Cent>>
    ELSE <<best_ask - Cent, best_ask - 2 * Cent>>

penny_quotes(best_bid, best_ask, imbalance, symbol) ==
    Orders(penny_bid_levels(best_bid, imbalance), PennySize, "buy", symbol)
        \o Orders(penny_ask_levels(best_ask, imbalance), PennySize, "sell", symbol)

\* Variant: the factor 0.1 is missing.
level_distance_unscaled(volatility) ==
    (base_level_distance * (Dollar + volatility)) \div Dollar

\* base_level_distance * (1 + volatility * 0.1)
level_distance(volatility) ==
    (base_level_distance * (10 * Dollar + volatility)) \div (10 * Dollar)

deep_quotes(best_bid, best_ask, volatility, symbol) ==
    LET d == level_distance(volatility) IN
    Orders([i \in 1..3 |-> best_bid - d * i], DeepSize, "buy", symbol)
        \o Orders([i \in 1..3 |-> best_ask + d * i], DeepSize, "sell", symbol)

\* Variant: the threshold is met by a size equal to it.
large_quotes_at_threshold(snapshot, symbol) ==
    LET bids == snapshot.bids
        asks == snapshot.asks
    IN (IF bids # <<>> /\ bids[1][2] >= large_order_threshold
        THEN <<Order(bids[1][1] + Cent, ReactSize, "buy", symbol)>> ELSE <<>>)
       \o
       (IF asks # <<>> /\ asks[1][2] >= large_order_threshold
        THEN <<Order(asks[1][1] - Cent, ReactSize, "sell", symbol)>> ELSE <<>>)

large_quotes(snapshot, symbol) ==
    LET bids == snapshot.bids
        asks == snapshot.asks
    IN (IF bids # <<>> /\ bids[1][2] > large_order_threshold
        THEN <<Order(bids[1][1] + Cent, ReactSize, "buy", symbol)>> ELSE <<>>)
       \o
       (IF asks # <<>> /\ asks[1][2] > large_order_threshold
        THEN <<Order(asks[1][1] - Cent, ReactSize, "sell", symbol)>> ELSE <<>>)

\* smart_order_sizing's result for the volatility it read
order_size_for(volatility) ==
    LET twice == IF 2 * volatility < Dollar THEN base_order_size * 3
                 ELSE IF volatility > 2 * Dollar THEN base_order_size
                 ELSE base_order_size * 2
    IN Max(1, twice \div 2)

(* create_limit_order returns an order id (TRUE) or None (FALSE).  The     *)
(* loops that submit the quoted levels drop what it returns, so the calls  *)
(* a method makes are its quotes, one call each, whatever the answers.     *)
Answers(n) ==
    {r \in [1..n -> BOOLEAN] : Cardinality({i \in 1..n : ~r[i]}) <= MaxRejects}

\* Variant: a refused submission is sent once more.
RECURSIVE calls_made_with_retry(_, _)
calls_made_with_retry(quotes, answers) ==
    IF quotes = <<>> THEN <<>>
    ELSE (IF Head(answers) THEN <<Head(quotes)>>
          ELSE <<Head(quotes), Head(quotes)>>)
         \o calls_made_with_retry(Tail(quotes), Tail(answers))

calls_made(quotes, answers) == quotes

\* The early returns of the three sub-strategies
best_of(levels) == IF levels # <<>> THEN Some(levels[1][1]) ELSE None

pennying_returns_early(snapshot) ==
    ~snapshot.some \/ snapshot.bids = <<>> \/ snapshot.asks = <<>>

levels_returns_early(snapshot) ==
    ~snapshot.some
        \/ best_of(snapshot.bids) = None \/ best_of(snapshot.asks) = None

\* Variant: only a missing snapshot ends detect_large_orders early.
large_returns_early_snapshot_only(snapshot) == ~snapshot.some

large_returns_early(snapshot) ==
    ~snapshot.some
        \/ best_of(snapshot.bids) = None \/ best_of(snapshot.asks) = None

\* Variant: pennying does not compute the volatility it has no use for.
pennying_volatility_skipped(vm, mm, symbol, snapshot) ==
    [ret |-> vm[symbol], vol |-> vm, mid |-> mm]

\* volatility = self.calculate_volatility(symbol) in adaptive_pennying_strategy:
\* the value is not used, the update of the maps stays.
pennying_volatility(vm, mm, symbol, snapshot) ==
    calculate_volatility(vm, mm, symbol, snapshot)

-----------------------------------------------------------------------------
(* strategy(): for symbol in self.symbols: pennying, deep levels, large    *)
(* orders.  Schedule is the sequence of calls one tick makes; pc is the    *)
(* next of them.                                                           *)

SubStrategies ==
    <<"adaptive_pennying_strategy", "volatility_adaptive_levels",
      "detect_large_orders">>

\* Variant: the large-order reaction runs before the deep levels.
Schedule_large_first ==
    [n \in 1..(Len(Symbols) * Len(SubStrategies)) |->
        [symbol |-> Symbols[((n - 1) \div Len(SubStrategies)) + 1],
         op |-> <<SubStrategies[1], SubStrategies[3], SubStrategies[2]>>
                    [((n - 1) % Len(SubStrategies)) + 1]]]

Schedule ==
    [n \in 1..(Len(Symbols) * Len(SubStrategies)) |->
        [symbol |-> Symbols[((n - 1) \div Len(SubStrategies)) + 1],
         op |-> SubStrategies[((n - 1) % Len(SubStrategies)) + 1]]]

Advance(p) == IF p < Len(Schedule) THEN p + 1 ELSE 0

-----------------------------------------------------------------------------
(* What is recorded of a call, for the properties below *)

Unobservable(snapshot) ==
    ~snapshot.some \/ snapshot.bids = <<>> \/ snapshot.asks = <<>>

Bests(snapshot) ==
    [bid |-> IF snapshot.some /\ snapshot.bids # <<>>
             THEN Some(snapshot.bids[1][1]) ELSE None,
     ask |-> IF snapshot.some /\ snapshot.asks # <<>>
             THEN Some(snapshot.asks[1][1]) ELSE None]

TwoSidedBests(b) == b.bid # None /\ b.ask # None

NoCall ==
    [op |-> "none", symbol |-> "", snaps |-> <<>>, volSnap |-> None,
     vol |-> None, ret |-> None,
     pre |-> [mid |-> None, vol |-> 0]]

\* op on symbol read `snaps` in this order; its calculate_volatility call, if
\* it made one, read volSnap and returned vol; the method returned ret; pre is
\* the symbol's entry in the two maps before the call.
Call(op, symbol, snaps, volSnap, vol, ret) ==
    [op |-> op, symbol |-> symbol, snaps |-> snaps, volSnap |-> volSnap,
     vol |-> vol, ret |-> ret,
     pre |-> [mid |-> mid_price_memory[symbol],
              vol |-> volatility_memory[symbol]]]

\* missed: every snapshot read for the symbol in this tick was unobservable;
\* steady: the bests that both volatility reads of the tick (pennying's, then
\* deep levels') found, when both found the same two-sided bests.
NoObs == [missed |-> TRUE, steady |-> None]

TraceEntry(o, op) ==
    [symbol |-> o.symbol, by |-> op, side |-> o.side, size |-> o.size]

\* One sub-strategy call of the tick: the maps become vm and mm, the quotes
\* are submitted and answered, the loop moves on.
Step(call, quotes, vm, mm) ==
    /\ volatility_memory' = vm
    /\ mid_price_memory' = mm
    /\ last' = call
    /\ \E answers \in Answers(Len(quotes)) :
          /\ submitted' = calls_made(quotes, answers)
          /\ refused' = Cardinality({i \in 1..Len(answers) : ~answers[i]})
    /\ trace' = trace \o [i \in 1..Len(submitted') |->
                             TraceEntry(submitted'[i], call.op)]
    /\ invoked' = Append(invoked, [symbol |-> call.symbol, op |-> call.op])
    /\ tickObs' =
         [tickObs EXCEPT ![call.symbol] =
            [missed |-> @.missed /\ \A j \in 1..Len(call.snaps) :
                                        Unobservable(call.snaps[j]),
             steady |-> IF call.op = SubStrategies[1] THEN None
                        ELSE IF /\ call.op = SubStrategies[2]
                                /\ call.volSnap # None
                                /\ pennySaw = Some(Bests(call.volSnap[1]))
                                /\ TwoSidedBests(Bests(call.volSnap[1]))
                        THEN pennySaw ELSE @.steady]]
    /\ pennySaw' = IF call.op = SubStrategies[1] /\ call.volSnap # None
                   THEN Some(Bests(call.volSnap[1])) ELSE None
    /\ pc' = Advance(pc)
    /\ UNCHANGED tickStart

-----------------------------------------------------------------------------
(* Operations *)

Init ==
    /\ volatility_memory = [s \in SymbolSet |-> 0]
    /\ mid_price_memory = [s \in SymbolSet |-> None]
    /\ pc = 0
    /\ last = NoCall
    /\ submitted = <<>>
    /\ refused = 0
    /\ trace = <<>>
    /\ invoked = <<>>
    /\ tickStart = [vol |-> volatility_memory, mid |-> mid_price_memory]
    /\ pennySaw = None
    /\ tickObs = [s \in SymbolSet |-> NoObs]

\* strategy() is entered: the loop starts at the first symbol
Strategy ==
    /\ pc = 0
    /\ pc' = 1
    /\ last' = NoCall
    /\ submitted' = <<>>
    /\ refused' = 0
    /\ trace' = <<>>
    /\ invoked' = <<>>
    /\ tickStart' = [vol |-> volatility_memory, mid |-> mid_price_memory]
    /\ pennySaw' = None
    /\ tickObs' = [s \in SymbolSet |-> NoObs]
    /\ UNCHANGED <<volatility_memory, mid_price_memory>>

\* adaptive_pennying_strategy(symbol).  Of its four reads of the book (its own
\* snapshot, get_mid_price, calculate_volatility, calculate_order_book_imbalance)
\* the second only sets the local mid_price, which nothing uses: that read
\* has no effect and is not drawn.
AdaptivePennying ==
    /\ pc # 0
    /\ Schedule[pc].op = "adaptive_pennying_strategy"
    /\ LET symbol == Schedule[pc].symbol
           op == Schedule[pc].op
       IN \E snapshot \in get_order_book_snapshot(symbol) :
            \/ /\ pennying_returns_early(snapshot)
               /\ Step(Call(op, symbol, <<snapshot>>, None, None, None),
                       <<>>, volatility_memory, mid_price_memory)
            \/ /\ ~pennying_returns_early(snapshot)
               /\ \E reads \in Reads(symbol, snapshot, 3) :
                    /\ LET best_bid == snapshot.bids[1][1]
                           best_ask == snapshot.asks[1][1]
                           v == pennying_volatility(volatility_memory,
                                    mid_price_memory, symbol, reads[2])
                           imbalance ==
                               calculate_order_book_imbalance(reads[3])
                       IN Step(Call(op, symbol, reads, Some(reads[2]),
                                    Some(v.ret), None),
                               penny_quotes(best_bid, best_ask, imbalance,
                                            symbol),
                               v.vol, v.mid)

\* volatility_adaptive_levels(symbol)
VolatilityAdaptiveLevels ==
    /\ pc # 0
    /\ Schedule[pc].op = "volatility_adaptive_levels"
    /\ LET symbol == Schedule[pc].symbol
           op == Schedule[pc].op
       IN \E snapshot \in get_order_book_snapshot(symbol) :
            \/ /\ levels_returns_early(snapshot)
               /\ Step(Call(op, symbol, <<snapshot>>, None, None, None),
                       <<>>, volatility_memory, mid_price_memory)
            \/ /\ ~levels_returns_early(snapshot)
               /\ \E reads \in Reads(symbol, snapshot, 2) :
                    /\ LET best_bid == best_of(snapshot.bids)[1]
                           best_ask == best_of(snapshot.asks)[1]
                           v == calculate_volatility(volatility_memory,
                                    mid_price_memory, symbol, reads[2])
                       IN Step(Call(op, symbol, reads, Some(reads[2]),
                                    Some(v.ret), None),
                               deep_quotes(best_bid, best_ask, v.ret, symbol),
                               v.vol, v.mid)

\* detect_large_orders(symbol)
DetectLargeOrders ==
    /\ pc # 0
    /\ Schedule[pc].op = "detect_large_orders"
    /\ LET symbol == Schedule[pc].symbol
           op == Schedule[pc].op
       IN \E snapshot \in get_order_book_snapshot(symbol) :
            \/ /\ large_returns_early(snapshot)
               /\ Step(Call(op, symbol, <<snapshot>>, None, None, None),
                       <<>>, volatility_memory, mid_price_memory)
            \/ /\ ~large_returns_early(snapshot)
               /\ Step(Call(op, symbol, <<snapshot>>, None, None, None),
                       large_quotes(snapshot, symbol),
                       volatility_memory, mid_price_memory)

\* A method called on the object outside strategy(): no sub-strategy runs,
\* no order is submitted, the record of the last tick is dropped.
Direct(call, vm, mm) ==
    /\ pc = 0
    /\ volatility_memory' = vm
    /\ mid_price_memory' = mm
    /\ last' = call
    /\ submitted' = <<>>
    /\ refused' = 0
    /\ trace' = <<>>
    /\ invoked' = <<>>
    /\ tickStart' = [vol |-> vm, mid |-> mm]
    /\ pennySaw' = None
    /\ tickObs' = [s \in SymbolSet |-> NoObs]
    /\ UNCHANGED pc

\* calculate_volatility(symbol), called directly
CalculateVolatility ==
    \E symbol \in SymbolSet :
      \E snapshot \in get_order_book_snapshot(symbol) :
        LET v == calculate_volatility(volatility_memory, mid_price_memory,
                                      symbol, snapshot)
        IN Direct(Call("calculate_volatility", symbol, <<snapshot>>,
                       Some(snapshot), Some(v.ret), Some(v.ret)),
                  v.vol, v.mid)

\* smart_order_sizing(symbol)
SmartOrderSizing ==
    \E symbol \in SymbolSet :
      \E snapshot \in get_order_book_snapshot(symbol) :
        LET v == calculate_volatility(volatility_memory, mid_price_memory,
                                      symbol, snapshot)
        IN Direct(Call("smart_order_sizing", symbol, <<snapshot>>,
                       Some(snapshot), Some(v.ret),
                       Some(order_size_for(v.ret))),
                  v.vol, v.mid)

Next ==
    \/ Strategy
    \/ AdaptivePennying
    \/ VolatilityAdaptiveLevels
    \/ DetectLargeOrders
    \/ CalculateVolatility
    \/ SmartOrderSizing

Spec == Init /\ [][Next]_vars

-----------------------------------------------------------------------------
(* Properties.  They read the record of the most recent call (last,       *)
(* submitted, refused), the record of the tick (trace, invoked, tickStart, *)
(* tickObs) and the two maps; none of them uses the operators above that   *)
(* compute what the code computes.                                         *)

Frozen(t) ==
    /\ volatility_memory'[t] = volatility_memory[t]
    /\ mid_price_memory'[t] = mid_price_memory[t]

Stable(snaps) == \A j \in 1..Len(snaps) : snaps[j] = snaps[1]

RECURSIVE FirstSizes(_, _)
FirstSizes(levels, n) ==
    IF n = 0 \/ levels = <<>> THEN 0
    ELSE levels[1][2] + FirstSizes(Tail(levels), n - 1)

Submitted == {submitted[i] : i \in 1..Len(submitted)}

Limit(price, size, side, symbol) ==
    [price |-> price, size |-> size, side |-> side, symbol |-> symbol]

Thousandth == Cent \div 10

\* C1: a calculate_volatility(s) call that finds no baseline for s and observes
\* a mid-price m = (best_bid + best_ask) / 2 returns 0, records m as the
\* baseline of s, leaves the volatility of s at 0 and every other symbol as
\* it was.
C1_ColdStart ==
    [][(/\ last'.volSnap # None
        /\ ~Unobservable(last'.volSnap[1])
        /\ mid_price_memory[last'.symbol] = None)
       => LET s == last'.symbol
              snap == last'.volSnap[1]
          IN /\ last'.vol = Some(0)
             /\ mid_price_memory'[s] # None
             /\ 2 * mid_price_memory'[s][1] = snap.bids[1][1] + snap.asks[1][1]
             /\ volatility_memory[s] = 0
             /\ volatility_memory'[s] = 0
             /\ \A t \in SymbolSet \ {s} : Frozen(t)]_vars

\* C1 happens: the deep-levels call is the first to observe a mid-price (the
\* pennying call before it returned early or missed the book)
C1_Witness ==
    /\ last.op = "volatility_adaptive_levels"
    /\ last.volSnap # None
    /\ ~Unobservable(last.volSnap[1])
    /\ last.pre.mid = None
    /\ last.vol = Some(0)
    /\ mid_price_memory[last.symbol] # None
    /\ volatility_memory[last.symbol] = 0

\* C2: a calculate_volatility(s) call whose snapshot is absent or has an empty
\* side returns the stored volatility of s and changes neither map.
C2_MissKeepsState ==
    [][(last'.volSnap # None /\ Unobservable(last'.volSnap[1]))
       => /\ last'.vol = Some(volatility_memory[last'.symbol])
          /\ UNCHANGED <<volatility_memory, mid_price_memory>>]_vars

\* C2 happens: a present snapshot with an empty side, a stored volatility
\* other than 0
C2_Witness ==
    /\ last.volSnap # None
    /\ last.volSnap[1].some
    /\ Unobservable(last.volSnap[1])
    /\ last.pre.vol > 0
    /\ last.vol = Some(last.pre.vol)
    /\ volatility_memory[last.symbol] = last.pre.vol
    /\ mid_price_memory[last.symbol] = last.pre.mid

\* C3: a symbol all of whose snapshots in the tick were absent or one-sided
\* has no order submitted for it in the tick, and its entries in both maps
\* are what they were when the tick began.
C3_MissingBookNoOp ==
    \A s \in SymbolSet :
        tickObs[s].missed
        => /\ \A i \in 1..Len(trace) : trace[i].symbol # s
           /\ mid_price_memory[s] = tickStart.mid[s]
           /\ volatility_memory[s] = tickStart.vol[s]

\* C3 happens: the three sub-strategies have run for a symbol with a recorded
\* volatility, the last of them on a present but one-sided snapshot
C3_Witness ==
    /\ last.op = "detect_large_orders"
    /\ last.snaps[1].some
    /\ tickObs[last.symbol].missed
    /\ volatility_memory[last.symbol] > 0
    /\ mid_price_memory[last.symbol] # None

\* C4: on a two-sided snapshot that stays the same during the call, pennying
\* submits exactly: two buys at +0.02, +0.03 and a sell at -0.01 when the top-5
\* bid sizes sum to more than the top-5 ask sizes; a buy at +0.01 and two sells
\* at -0.02, -0.03 when to less; buys at +0.01, +0.02 and sells at -0.01, -0.02
\* when the sums are equal; all of size 5.
C4_PennyLevels ==
    (/\ last.op = "adaptive_pennying_strategy"
     /\ ~Unobservable(last.snaps[1])
     /\ Stable(last.snaps))
    => LET snap == last.snaps[1]
           s == last.symbol
           bb == snap.bids[1][1]
           ba == snap.asks[1][1]
           bidSum == FirstSizes(snap.bids, 5)
           askSum == FirstSizes(snap.asks, 5)
           expected ==
               IF bidSum > askSum
               THEN {Limit(bb + 2 * Cent, 5, "buy", s),
                     Limit(bb + 3 * Cent, 5, "buy", s),
                     Limit(ba - Cent, 5, "sell", s)}
               ELSE IF bidSum < askSum
               THEN {Limit(bb + Cent, 5, "buy", s),
                     Limit(ba - 2 * Cent, 5, "sell", s),
                     Limit(ba - 3 * Cent, 5, "sell", s)}
               ELSE {Limit(bb + Cent, 5, "buy", s),
                     Limit(bb + 2 * Cent, 5, "buy", s),
                     Limit(ba - Cent, 5, "sell", s),
                     Limit(ba - 2 * Cent, 5, "sell", s)}
       IN /\ Submitted = expected
          /\ Len(submitted) = Cardinality(expected)

\* C4 happens: a book deeper than five levels whose top-5 sums and whose full
\* sums differ in sign
C4_Witness ==
    /\ last.op = "adaptive_pennying_strategy"
    /\ ~Unobservable(last.snaps[1])
    /\ Stable(last.snaps)
    /\ Len(last.snaps[1].bids) > 5
    /\ FirstSizes(last.snaps[1].bids, 5) < FirstSizes(last.snaps[1].asks, 5)
    /\ FirstSizes(last.snaps[1].bids, Len(last.snaps[1].bids))
         > FirstSizes(last.snaps[1].asks, Len(last.snaps[1].asks))
    /\ Len(submitted) = 3

\* C5: on a two-sided snapshot, deep levels submits exactly six orders of size
\* 10: buys at best_bid - d*i and sells at best_ask + d*i, i = 1, 2, 3, with
\* d = 0.05 * (1 + 0.1 * v) for the volatility v the call computed; v >= 0, so
\* d >= 0.05 and the levels recede from the touch; best_bid 10.00, best_ask
\* 10.10, v = 1.0 gives 9.945, 9.890, 9.835 and 10.155, 10.210, 10.265.
C5_DeepLevels ==
    /\ \A s \in SymbolSet : volatility_memory[s] >= 0
    /\ (last.op = "volatility_adaptive_levels" /\ ~Unobservable(last.snaps[1]))
       => LET snap == last.snaps[1]
              s == last.symbol
              bb == snap.bids[1][1]
              ba == snap.asks[1][1]
              v == last.vol[1]
              d == (50 * Dollar + 5 * v) \div 1000
          IN /\ last.vol # None
             /\ v >= 0
             /\ 1000 * d = 50 * Dollar + 5 * v
             /\ d >= 5 * Cent
             /\ submitted =
                  <<Limit(bb - d, 10, "buy", s), Limit(bb - 2 * d, 10, "buy", s),
                    Limit(bb - 3 * d, 10, "buy", s),
                    Limit(ba + d, 10, "sell", s), Limit(ba + 2 * d, 10, "sell", s),
                    Limit(ba + 3 * d, 10, "sell", s)>>
             /\ \A i \in 1..3 : submitted[i].price < bb
             /\ \A i \in 4..6 : submitted[i].price > ba
             /\ \A i \in 1..2 : /\ submitted[i + 1].price < submitted[i].price
                                /\ submitted[i + 4].price > submitted[i + 3].price
             /\ (bb = 10 * Dollar /\ ba = 10 * Dollar + 10 * Cent /\ v = Dollar)
                => [i \in 1..6 |-> submitted[i].price]
                     = <<9945 * Thousandth, 9890 * Thousandth, 9835 * Thousandth,
                         10155 * Thousandth, 10210 * Thousandth,
                         10265 * Thousandth>>

\* C5 happens: best_bid 10.00, best_ask 10.10, volatility 1.0
C5_Witness ==
    /\ last.op = "volatility_adaptive_levels"
    /\ ~Unobservable(last.snaps[1])
    /\ last.snaps[1].bids[1][1] = 10 * Dollar
    /\ last.snaps[1].asks[1][1] = 10 * Dollar + 10 * Cent
    /\ last.vol = Some(Dollar)
    /\ Len(submitted) = 6
    /\ submitted[1].price = 9945 * Thousandth

\* C6: on a two-sided snapshot, detect_large_orders submits a buy of size 5 at
\* best_bid + 0.01 exactly when the best bid's size is above 50 and a sell of
\* size 5 at best_ask - 0.01 exactly when the best ask's size is above 50,
\* nothing else, and changes neither map.
C6_LargeOrders ==
    [][(last'.op = "detect_large_orders" /\ ~Unobservable(last'.snaps[1]))
       => LET snap == last'.snaps[1]
              s == last'.symbol
              buy == Limit(snap.bids[1][1] + Cent, 5, "buy", s)
              sell == Limit(snap.asks[1][1] - Cent, 5, "sell", s)
              expected == (IF snap.bids[1][2] > 50 THEN {buy} ELSE {})
                              \cup (IF snap.asks[1][2] > 50 THEN {sell} ELSE {})
          IN /\ {submitted'[i] : i \in 1..Len(submitted')} = expected
             /\ Len(submitted') = Cardinality(expected)
             /\ UNCHANGED <<volatility_memory, mid_price_memory>>]_vars

\* C6 happens: the best bid's size is exactly 50, the best ask's is above it,
\* and only the sell goes out
C6_Witness ==
    /\ last.op = "detect_large_orders"
    /\ ~Unobservable(last.snaps[1])
    /\ last.snaps[1].bids[1][2] = 50
    /\ last.snaps[1].asks[1][2] > 50
    /\ Len(submitted) = 1
    /\ submitted[1].side = "sell"

\* C7: within a tick the submissions come symbol by symbol in the configured
\* order and, within a symbol, pennying's (size 5) before deep levels' (size
\* 10) before the large-order reaction's (size 5), buys before sells within
\* each; the fifteen calls are made in that order whatever each of them did.
SymbolRank(s) ==
    CHOOSE i \in 1..5 : <<"NVR", "CPMD", "MFH", "ANG", "TVW">>[i] = s

OpRank(op) ==
    CHOOSE k \in 1..3 :
        <<"adaptive_pennying_strategy", "volatility_adaptive_levels",
          "detect_large_orders">>[k] = op

SideRank(side) == IF side = "buy" THEN 1 ELSE 2

NotAfter(a, b) ==
    \/ SymbolRank(a.symbol) < SymbolRank(b.symbol)
    \/ /\ a.symbol = b.symbol
       /\ \/ OpRank(a.by) < OpRank(b.by)
          \/ a.by = b.by /\ SideRank(a.side) <= SideRank(b.side)

CallsOfATick ==
    [n \in 1..15 |->
        [symbol |-> <<"NVR", "CPMD", "MFH", "ANG", "TVW">>[((n - 1) \div 3) + 1],
         op |-> <<"adaptive_pennying_strategy", "volatility_adaptive_levels",
                  "detect_large_orders">>[((n - 1) % 3) + 1]]]

C7_TickOrder ==
    /\ \A i, j \in 1..Len(trace) : i < j => NotAfter(trace[i], trace[j])
    /\ \A i \in 1..Len(trace) :
          trace[i].size =
              IF trace[i].by = "volatility_adaptive_levels" THEN 10 ELSE 5
    /\ Len(invoked) <= 15
    /\ invoked = SubSeq(CallsOfATick, 1, Len(invoked))
    /\ pc # 0 => Len(invoked) = pc - 1
    /\ (pc = 0 /\ invoked # <<>>) => invoked = CallsOfATick

\* C7 happens: a tick has ended in which pennying did nothing for the active
\* symbol, deep levels and the large-order reaction still quoted it, and the
\* later symbol was quoted by all three
C7_Witness ==
    /\ pc = 0
    /\ Len(invoked) = 15
    /\ \A i \in 1..Len(trace) :
          trace[i].symbol = "CPMD" => trace[i].by # "adaptive_pennying_strategy"
    /\ \E i \in 1..Len(trace) :
          trace[i].symbol = "CPMD" /\ trace[i].by = "volatility_adaptive_levels"
    /\ \E i \in 1..Len(trace) :
          trace[i].symbol = "CPMD" /\ trace[i].by = "detect_large_orders"
    /\ \A k \in 1..3 :
          \E i \in 1..Len(trace) :
             trace[i].symbol = "ANG" /\ OpRank(trace[i].by) = k

C9_SizingIsPure ==
    last.op = "smart_order_sizing"
    => /\ submitted = <<>>
       /\ mid_price_memory[last.symbol] = last.pre.mid
       /\ volatility_memory[last.symbol] = last.pre.vol

\* C9 as amended: smart_order_sizing(s) submits no order and leaves every other
\* symbol as it was; to s it does what its calculate_volatility(s) call does:
\* nothing when the book is unobservable, else the baseline of s becomes the
\* observed mid-price and, when there was a baseline, the volatility of s
\* becomes the absolute change from it.
C9_SizingUpdatesItsSymbol ==
    [][last'.op = "smart_order_sizing"
       => LET s == last'.symbol
              snap == last'.snaps[1]
          IN /\ submitted' = <<>>
             /\ \A t \in SymbolSet \ {s} : Frozen(t)
             /\ IF Unobservable(snap) THEN Frozen(s)
                ELSE /\ mid_price_memory'[s] # None
                     /\ 2 * mid_price_memory'[s][1]
                          = snap.bids[1][1] + snap.asks[1][1]
                     /\ volatility_memory'[s] =
                          IF mid_price_memory[s] = None
                          THEN volatility_memory[s]
                          ELSE Abs(mid_price_memory'[s][1]
                                     - mid_price_memory[s][1])]_vars

\* C9 happens: a smart_order_sizing call moved the baseline and the volatility
C9_Witness ==
    /\ last.op = "smart_order_sizing"
    /\ last.pre.mid # None
    /\ mid_price_memory[last.symbol] # last.pre.mid
    /\ volatility_memory[last.symbol] # last.pre.vol
    /\ submitted = <<>>

\* C10: when pennying's and deep levels' volatility reads of a tick find the
\* same two-sided bests for s, the deep levels are computed with volatility 0
\* and spaced by exactly 0.05, and from then to the end of the tick the
\* volatility of s is 0 and its baseline is the mid of those bests.
C10_SecondReadSeesNoChange ==
    \A s \in SymbolSet :
        tickObs[s].steady # None
        => LET b == tickObs[s].steady[1] IN
           /\ volatility_memory[s] = 0
           /\ mid_price_memory[s] # None
           /\ 2 * mid_price_memory[s][1] = b.bid[1] + b.ask[1]
           /\ (last.op = "volatility_adaptive_levels" /\ last.symbol = s)
              => /\ last.vol = Some(0)
                 /\ Len(submitted) = 6
                 /\ \A i \in 1..3 :
                      /\ submitted[i].price
                           = last.snaps[1].bids[1][1] - 5 * Cent * i
                      /\ submitted[3 + i].price
                           = last.snaps[1].asks[1][1] + 5 * Cent * i

\* C10 happens: a tick has ended in which the mid-price of the active symbol
\* had moved since the tick began, and its volatility is 0 all the same
C10_Witness ==
    /\ pc = 0
    /\ Len(invoked) = 15
    /\ tickObs["CPMD"].steady # None
    /\ tickStart.mid["CPMD"] # None
    /\ tickStart.mid["CPMD"] # mid_price_memory["CPMD"]
    /\ volatility_memory["CPMD"] = 0

====
